---- MODULE Spec2Model ----
(***************************************************************************)
(* A model of bskypost.py: the two regex scanners (parse_mentions,         *)
(* parse_urls) computed over the UTF-8 bytes of the post text, the facet   *)
(* resolver (parse_facets) and the script's pipeline of REST calls         *)
(* (createSession, resolveHandle, uploadBlob, createRecord).               *)
(*                                                                         *)
(* Text is a sequence of Unicode code points, bytes are integers 0..255,   *)
(* byte offsets in results are 0-based as in Python, TLA+ sequence         *)
(* indices are 1-based.                                                    *)
(***************************************************************************)
EXTENDS Integers, Sequences, FiniteSets, TLC

VARIABLES pc, text, mentions, urls, mi, facets, post, session, image, alt,
          idx, img_bytes, calls, resp, printed, error

vars == <<pc, text, mentions, urls, mi, facets, post, session, image, alt,
          idx, img_bytes, calls, resp, printed, error>>

(***************************************************************************)
(* Bounds of the model.                                                    *)
(***************************************************************************)
\* longest text of the scanner specification, in tokens of ScanTokens
MaxTokens == 5
\* longest text of the pipeline specification, in parts of PostParts
MaxParts == 2
\* most --image arguments
MaxImages == 2
\* most --alt arguments
MaxAlts == 2

(***************************************************************************)
(* Program constants.                                                      *)
(***************************************************************************)
\* the size limit of an image payload
MaxImageBytes == 1000000
\* {0,61}: the most middle characters of a handle label
LabelMidMax == 61
\* {1,256}: the most characters of a URL host
HostMax == 256
\* {1,6}: the most characters of a URL top-level label
TldMax == 6

SetMax(S) == CHOOSE x \in S : \A y \in S : y <= x

Min2(a, b) == IF a <= b THEN a ELSE b

(***************************************************************************)
(* str.encode("UTF-8") and bytes.decode("UTF-8").                          *)
(***************************************************************************)
EncodeChar(cp) ==
    IF cp < 128 THEN <<cp>>
    ELSE IF cp < 2048 THEN <<192 + (cp \div 64), 128 + (cp % 64)>>
    ELSE IF cp < 65536
         THEN <<224 + (cp \div 4096), 128 + ((cp \div 64) % 64), 128 + (cp % 64)>>
    ELSE <<240 + (cp \div 262144), 128 + ((cp \div 4096) % 64),
           128 + ((cp \div 64) % 64), 128 + (cp % 64)>>

RECURSIVE Encode(_)
Encode(t) == IF t = <<>> THEN <<>> ELSE EncodeChar(Head(t)) \o Encode(Tail(t))

RECURSIVE Decode(_)
Decode(b) ==
    IF b = <<>> THEN <<>>
    ELSE IF b[1] < 128 THEN <<b[1]>> \o Decode(Tail(b))
    ELSE IF b[1] < 224
         THEN <<(b[1] - 192) * 64 + (b[2] - 128)>> \o Decode(SubSeq(b, 3, Len(b)))
    ELSE IF b[1] < 240
         THEN <<(b[1] - 224) * 4096 + (b[2] - 128) * 64 + (b[3] - 128)>>
              \o Decode(SubSeq(b, 4, Len(b)))
    ELSE <<(b[1] - 240) * 262144 + (b[2] - 128) * 4096 + (b[3] - 128) * 64
           + (b[4] - 128)>> \o Decode(SubSeq(b, 5, Len(b)))

(***************************************************************************)
(* Character classes of the two patterns, over bytes.                      *)
(***************************************************************************)
IsAlpha(c) == (c >= 65 /\ c <= 90) \/ (c >= 97 /\ c <= 122)

IsDigit(c) == c >= 48 /\ c <= 57

IsAlnum(c) == IsAlpha(c) \/ IsDigit(c)

\* \w of a bytes pattern: ASCII letters, digits and the underscore
IsWord(c) == IsAlnum(c) \/ c = 95

\* [$|\W]: a character class, so it consumes one byte
IsBoundaryChar(c) == c = 36 \/ c = 124 \/ ~IsWord(c)

\* [a-zA-Z0-9-]
IsLabelMid(c) == IsAlnum(c) \/ c = 45

\* [-a-zA-Z0-9@:%._\+~#=]
IsHostChar(c) == IsAlnum(c) \/ c \in {45, 64, 58, 37, 46, 95, 43, 126, 35, 61}

\* [a-zA-Z0-9()]
IsTldChar(c) == IsAlnum(c) \/ c \in {40, 41}

\* [-a-zA-Z0-9()@:%_\+.~#?&//=]
IsTailChar(c) ==
    IsAlnum(c) \/ c \in {45, 40, 41, 64, 58, 37, 95, 43, 46, 126, 35, 63, 38, 47, 61}

\* [-a-zA-Z0-9@%_\+~#//=]
IsTailEnd(c) == IsAlnum(c) \/ c \in {45, 64, 37, 95, 43, 126, 35, 47, 61}

\* \b between b[t-1] and b[t]; outside the bytes counts as a non-word character
WordBoundary(b, t) ==
    (t >= 2 /\ t - 1 <= Len(b) /\ IsWord(b[t - 1])) # (t <= Len(b) /\ IsWord(b[t]))

\* the literal lit at index p of b
Literal(b, p, lit) ==
    /\ p + Len(lit) - 1 <= Len(b)
    /\ \A i \in 1..Len(lit) : b[p + i - 1] = lit[i]

(***************************************************************************)
(* The mention pattern after its boundary byte and "@":                    *)
(*   ([a-zA-Z0-9]([a-zA-Z0-9-]{0,61}[a-zA-Z0-9])?\.)+                      *)
(*   [a-zA-Z]([a-zA-Z0-9-]{0,61}[a-zA-Z0-9])?                              *)
(* An end is the index after the last byte matched; 0 is no match.  The    *)
(* engine backtracks greedily: the longest alternative that lets the rest  *)
(* match is the one taken.                                                 *)
(***************************************************************************)
\* ends of  first([a-zA-Z0-9-]{0,61}[a-zA-Z0-9])?  from p, first in letters or alnum
LabelEnds(b, p, lettersOnly) ==
    IF p > Len(b) \/ ~(IF lettersOnly THEN IsAlpha(b[p]) ELSE IsAlnum(b[p]))
    THEN {}
    ELSE {p + 1} \cup
         {e \in (p + 2)..(Len(b) + 1) :
             /\ e - p - 2 <= LabelMidMax
             /\ \A i \in (p + 1)..(e - 2) : IsLabelMid(b[i])
             /\ IsAlnum(b[e - 1])}

RECURSIVE MentionRest(_, _, _)
MentionRest(b, p, k) ==
    LET more == {e \in LabelEnds(b, p, FALSE) :
                    /\ e <= Len(b)
                    /\ b[e] = 46
                    /\ MentionRest(b, e + 1, k + 1) # 0}
        tld  == LabelEnds(b, p, TRUE)
    IN  IF more # {} THEN MentionRest(b, SetMax(more) + 1, k + 1)
        ELSE IF k >= 1 /\ tld # {} THEN SetMax(tld)
        ELSE 0

\* group 1 of the mention pattern, "@" and the handle, from p: the end, or 0
MentionBody(b, p) ==
    IF p <= Len(b) /\ b[p] = 64 THEN MentionRest(b, p + 1, 0) ELSE 0

\* the whole mention pattern with its boundary byte at s: the end, or 0
MentionAt(b, s) ==
    IF s >= 1 /\ s <= Len(b) /\ IsBoundaryChar(b[s]) THEN MentionBody(b, s + 1) ELSE 0

(***************************************************************************)
(* The URL pattern after its boundary byte:                                *)
(*   https?:\/\/(www\.)?HOST{1,256}\.TLD{1,6}\b(TAIL*TAILEND)?             *)
(***************************************************************************)
\* (TAIL*TAILEND)? from t: the longest tail, or none
UrlTail(b, t) ==
    LET ends == {e \in (t + 1)..(Len(b) + 1) :
                    /\ \A i \in t..(e - 2) : IsTailChar(b[i])
                    /\ IsTailEnd(b[e - 1])}
    IN  IF ends # {} THEN SetMax(ends) ELSE t

\* TLD{1,6}\b from p: the ends that leave a word boundary
UrlTldEnds(b, p) ==
    {e \in (p + 1)..Min2(p + TldMax, Len(b) + 1) :
        /\ \A i \in p..(e - 1) : IsTldChar(b[i])
        /\ WordBoundary(b, e)}

\* HOST{1,256}\.TLD{1,6}\b(...)? from r: the longest host that lets a
\* top-level label follow, then the longest such label, then the tail
UrlHost(b, r) ==
    LET dots == {d \in (r + 1)..Min2(r + HostMax, Len(b)) :
                    /\ \A i \in r..(d - 1) : IsHostChar(b[i])
                    /\ b[d] = 46
                    /\ UrlTldEnds(b, d + 1) # {}}
    IN  IF dots = {} THEN 0
        ELSE UrlTail(b, SetMax(UrlTldEnds(b, SetMax(dots) + 1)))

\* (www\.)? then the host: with the www. first, without it on failure
UrlAfterScheme(b, r) ==
    LET www == <<119, 119, 119, 46>>
    IN  IF Literal(b, r, www) /\ UrlHost(b, r + 4) # 0
        THEN UrlHost(b, r + 4)
        ELSE UrlHost(b, r)

\* :\/\/ and what follows
UrlAfterS(b, q) ==
    IF Literal(b, q, <<58, 47, 47>>) THEN UrlAfterScheme(b, q + 3) ELSE 0

\* group 1 of the URL pattern from p: http, s? and the rest; the end, or 0
UrlBody(b, p) ==
    IF Literal(b, p, <<104, 116, 116, 112>>)
    THEN IF Literal(b, p + 4, <<115>>) /\ UrlAfterS(b, p + 5) # 0
         THEN UrlAfterS(b, p + 5)
         ELSE UrlAfterS(b, p + 4)
    ELSE 0

\* the whole URL pattern with its boundary byte at s: the end, or 0
UrlAt(b, s) ==
    IF s >= 1 /\ s <= Len(b) /\ IsBoundaryChar(b[s]) THEN UrlBody(b, s + 1) ELSE 0

(***************************************************************************)
(* re.finditer: the leftmost match from pos on, then on from its end.      *)
(* A match is <<s, e>>: the boundary byte's index and the end.             *)
(***************************************************************************)
RECURSIVE FindMentions(_, _)
FindMentions(b, pos) ==
    LET starts == {s \in pos..Len(b) : MentionAt(b, s) # 0}
    IN  IF starts = {} THEN <<>>
        ELSE LET s == CHOOSE x \in starts : \A y \in starts : x <= y
                 e == MentionAt(b, s)
             IN  <<<<s, e>>>> \o FindMentions(b, e)

RECURSIVE FindUrls(_, _)
FindUrls(b, pos) ==
    LET starts == {s \in pos..Len(b) : UrlAt(b, s) # 0}
    IN  IF starts = {} THEN <<>>
        ELSE LET s == CHOOSE x \in starts : \A y \in starts : x <= y
                 e == UrlAt(b, s)
             IN  <<<<s, e>>>> \o FindUrls(b, e)

\* a span that starts at the whole match, m.start(0), boundary byte included
MentionSpan_FromMatchStart(b, s, e) ==
    [start |-> s - 1, end |-> e - 1, handle |-> Decode(SubSeq(b, s + 2, e - 1))]

\* the span of a mention match: m.start(1), m.end(1), m.group(1)[1:].decode()
MentionSpan(b, s, e) ==
    [start |-> s, end |-> e - 1, handle |-> Decode(SubSeq(b, s + 2, e - 1))]

\* the span of a URL match: m.start(1), m.end(1), m.group(1).decode()
UrlSpan(b, s, e) ==
    [start |-> s, end |-> e - 1, url |-> Decode(SubSeq(b, s + 1, e - 1))]

parse_mentions(t) ==
    LET text_bytes == Encode(t)
        ms == FindMentions(text_bytes, 1)
    IN  [i \in 1..Len(ms) |-> MentionSpan(text_bytes, ms[i][1], ms[i][2])]

parse_urls(t) ==
    LET text_bytes == Encode(t)
        ms == FindUrls(text_bytes, 1)
    IN  [i \in 1..Len(ms) |-> UrlSpan(text_bytes, ms[i][1], ms[i][2])]


(***************************************************************************)
(* The inputs.                                                             *)
(***************************************************************************)
RECURSIVE Flatten(_)
Flatten(parts) == IF parts = <<>> THEN <<>> ELSE Head(parts) \o Flatten(Tail(parts))

\* the scanners' texts are built of: " ", "@", "a", "7", "-", ".", "e-acute"
\* (two bytes in UTF-8) and "http://"
ScanTokens ==
    {<<32>>, <<64>>, <<97>>, <<55>>, <<45>>, <<46>>, <<233>>,
     <<104, 116, 116, 112, 58, 47, 47>>}

\* the posts' texts are built of: " @a.bc", " @d.ef", " http://a.bc", "e-acute"
PostParts ==
    {<<32, 64, 97, 46, 98, 99>>, <<32, 64, 100, 46, 101, 102>>,
     <<32, 104, 116, 116, 112, 58, 47, 47, 97, 46, 98, 99>>, <<233>>}

\* the i-th --alt text: "A", "B", ...
AltText(i) == <<64 + i>>

\* what a file read may give: the length of the payload
ImageSizes == {1, MaxImageBytes, MaxImageBytes + 1}

\* what a REST call may give: no response at all (the client raises), or a
\* status and a body: JSON with the keys the script reads ("full"), other
\* JSON ("other"), or no JSON at all ("notjson")
Responses ==
    {[kind |-> "transport", status |-> 0, body |-> "none"]} \cup
    {[kind |-> "http", status |-> st, body |-> bd] :
        st \in {200, 400, 500}, bd \in {"full", "other", "notjson"}}

NoResponse == [kind |-> "none", status |-> 0, body |-> "none"]

(***************************************************************************)
(* Pieces of the script.                                                   *)
(***************************************************************************)
\* a check that never raises
raise_for_status_Never(r) == FALSE

\* resp.raise_for_status(): raises on a 4xx or 5xx status
raise_for_status(r) == r.status >= 400 /\ r.status < 600

\* resp.json(): raises when the body is no JSON
JsonFails(r) == r.body = "notjson"

\* the size check with the limit itself rejected
TooLarge_AtLimit(n) == n >= MaxImageBytes

\* len(img_bytes) > 1000000
TooLarge(n) == n > MaxImageBytes

\* the lookup sent with the sigil kept on the handle
resolveHandleParams_WithSigil(m) == <<64>> \o m.handle

\* params={"handle": m["handle"]}
resolveHandleParams(m) == m.handle

\* a loop body where every 4xx or 5xx status raises
ResolveOutcome_StatusRaises(r) ==
    IF r.kind = "transport" \/ r.status >= 400 THEN "raise"
    ELSE IF r.body # "full" THEN "raise"
    ELSE "append"

\* the body of parse_facets' first loop on a response: skip the mention on
\* 400, else read resp.json()["did"], which raises unless the body has it
ResolveOutcome(r) ==
    IF r.kind = "transport" THEN "raise"
    ELSE IF r.status = 400 THEN "continue"
    ELSE IF r.body # "full" THEN "raise"
    ELSE "append"

\* the exception a response raises when its JSON body is read for a key
BodyError(r) ==
    IF r.kind = "transport" THEN "ConnectionError"
    ELSE IF r.body = "notjson" THEN "JSONDecodeError"
    ELSE "KeyError"

MentionFacet(m) ==
    [byteStart |-> m.start, byteEnd |-> m.end, type |-> "mention", ref |-> <<>>]

LinkFacet(u) ==
    [byteStart |-> u.start, byteEnd |-> u.end, type |-> "link", ref |-> u.url]

\* the link facets put before the mention facets
AppendLinkFacets_First(fs, us) == [i \in 1..Len(us) |-> LinkFacet(us[i])] \o fs

\* parse_facets' second loop: one link facet per URL match, appended
AppendLinkFacets(fs, us) == fs \o [i \in 1..Len(us) |-> LinkFacet(us[i])]

\* 'alt': args.alt[idx] if len(args.alt) > idx else ""; args.alt is None,
\* never an empty list, when no --alt was given, and len(None) raises
AltIsNone(a) == a = <<>>

AltFor(a, i) == IF Len(a) > i THEN a[i + 1] ELSE <<>>

Call(api, arg, r) == [api |-> api, arg |-> arg, status |-> r.status]

(***************************************************************************)
(* The script, one step per REST call.                                     *)
(***************************************************************************)
Raise(e) == pc' = "failed" /\ error' = e

\* parse_facets goes on: the next mention's lookup, or the second loop, the
\* return into post["facets"] and the start of the image loop
Continue(fs, next) ==
    /\ error' = error
    /\ mi' = next
    /\ IF next <= Len(mentions')
       THEN /\ pc' = "resolveHandle"
            /\ facets' = fs
            /\ UNCHANGED <<urls, post>>
       ELSE /\ urls' = parse_urls(text)
            /\ facets' = AppendLinkFacets(fs, urls')
            /\ post' = [facets |-> facets', hasFacets |-> TRUE,
                        embed |-> <<>>, hasEmbed |-> image # <<>>]
            /\ pc' = IF image # <<>> THEN "uploadBlob" ELSE "createRecord"

createSession ==
    /\ pc = "createSession"
    /\ \E r \in Responses :
        /\ resp' = r
        /\ calls' = Append(calls, Call("createSession", <<>>, r))
        /\ IF r.kind = "transport"
           THEN /\ Raise("ConnectionError")
                /\ UNCHANGED <<mentions, urls, mi, facets, post, session>>
           ELSE IF raise_for_status(r)
           THEN /\ Raise("HTTPError")
                /\ UNCHANGED <<mentions, urls, mi, facets, post, session>>
           ELSE IF JsonFails(r)
           THEN /\ Raise("JSONDecodeError")
                /\ UNCHANGED <<mentions, urls, mi, facets, post, session>>
           ELSE /\ session' = r.body
                /\ mentions' = parse_mentions(text)
                /\ Continue(<<>>, 1)
    /\ UNCHANGED <<text, image, alt, idx, img_bytes, printed>>

resolveHandle ==
    /\ pc = "resolveHandle"
    /\ \E r \in Responses :
        LET m == mentions[mi]
            out == ResolveOutcome(r)
        IN  /\ resp' = r
            /\ calls' = Append(calls, Call("resolveHandle", resolveHandleParams(m), r))
            /\ mentions' = mentions
            /\ IF out = "raise"
               THEN /\ Raise(BodyError(r))
                    /\ UNCHANGED <<urls, mi, facets, post>>
               ELSE Continue(IF out = "append" THEN Append(facets, MentionFacet(m))
                                               ELSE facets, mi + 1)
    /\ UNCHANGED <<text, session, image, alt, idx, img_bytes, printed>>

\* open(img, 'rb') fails
openImageFails ==
    /\ pc = "uploadBlob"
    /\ Raise("OSError")
    /\ UNCHANGED <<text, mentions, urls, mi, facets, post, session, image, alt,
                   idx, img_bytes, calls, resp, printed>>

uploadBlob ==
    /\ pc = "uploadBlob"
    /\ \E size \in ImageSizes :
        /\ img_bytes' = size
        /\ IF TooLarge(size)
           THEN Raise("ImageTooLarge") /\ UNCHANGED <<post, idx, calls, resp>>
           ELSE IF session # "full"
           THEN Raise("KeyError") /\ UNCHANGED <<post, idx, calls, resp>>
           ELSE \E r \in Responses :
                /\ resp' = r
                /\ calls' = Append(calls, Call("uploadBlob", <<idx, size>>, r))
                /\ IF r.kind = "transport"
                   THEN Raise("ConnectionError") /\ UNCHANGED <<post, idx>>
                   ELSE IF raise_for_status(r)
                   THEN Raise("HTTPError") /\ UNCHANGED <<post, idx>>
                   ELSE IF r.body # "full"
                   THEN Raise(BodyError(r)) /\ UNCHANGED <<post, idx>>
                   ELSE IF AltIsNone(alt)
                   THEN Raise("TypeError") /\ UNCHANGED <<post, idx>>
                   ELSE /\ post' = [post EXCEPT !.embed =
                                Append(@, [alt |-> AltFor(alt, idx), image |-> image[idx + 1]])]
                        /\ idx' = idx + 1
                        /\ pc' = IF idx + 1 < Len(image) THEN "uploadBlob" ELSE "createRecord"
                        /\ error' = error
    /\ UNCHANGED <<text, mentions, urls, mi, facets, session, image, alt, printed>>

createRecord ==
    /\ pc = "createRecord"
    /\ IF session # "full"
       THEN Raise("KeyError") /\ UNCHANGED <<calls, resp, printed>>
       ELSE \E r \in Responses :
            /\ resp' = r
            /\ calls' = Append(calls, Call("createRecord", <<>>, r))
            /\ IF r.kind = "transport"
               THEN Raise("ConnectionError") /\ printed' = printed
               ELSE IF JsonFails(r)
               THEN Raise("JSONDecodeError") /\ printed' = printed
               ELSE /\ printed' = TRUE
                    /\ IF raise_for_status(r)
                       THEN Raise("HTTPError")
                       ELSE pc' = "done" /\ error' = error
    /\ UNCHANGED <<text, mentions, urls, mi, facets, post, session, image, alt,
                   idx, img_bytes>>

Init ==
    /\ pc = "createSession"
    /\ \E n \in 0..MaxParts : \E parts \in [1..n -> PostParts] : text = Flatten(parts)
    /\ \E n \in 0..MaxImages : image = [i \in 1..n |-> i]
    /\ \E k \in 0..MaxAlts : alt = [i \in 1..k |-> AltText(i)]
    /\ mentions = <<>>
    /\ urls = <<>>
    /\ mi = 0
    /\ facets = <<>>
    /\ post = [facets |-> <<>>, hasFacets |-> FALSE, embed |-> <<>>, hasEmbed |-> FALSE]
    /\ session = "none"
    /\ idx = 0
    /\ img_bytes = 0
    /\ calls = <<>>
    /\ resp = NoResponse
    /\ printed = FALSE
    /\ error = "none"

Next ==
    \/ createSession
    \/ resolveHandle
    \/ openImageFails
    \/ uploadBlob
    \/ createRecord

Spec == Init /\ [][Next]_vars

(***************************************************************************)
(* The scanners alone, on every text of at most MaxTokens tokens.          *)
(***************************************************************************)
ScanMentions ==
    /\ pc = "scan"
    /\ mentions' = parse_mentions(text)
    /\ pc' = "scanUrls"
    /\ UNCHANGED <<text, urls, mi, facets, post, session, image, alt, idx,
                   img_bytes, calls, resp, printed, error>>

ScanUrls ==
    /\ pc = "scanUrls"
    /\ urls' = parse_urls(text)
    /\ pc' = "scanned"
    /\ UNCHANGED <<text, mentions, mi, facets, post, session, image, alt, idx,
                   img_bytes, calls, resp, printed, error>>

InitScan ==
    /\ pc = "scan"
    /\ \E n \in 0..MaxTokens : \E parts \in [1..n -> ScanTokens] : text = Flatten(parts)
    /\ image = <<>>
    /\ alt = <<>>
    /\ mentions = <<>>
    /\ urls = <<>>
    /\ mi = 0
    /\ facets = <<>>
    /\ post = [facets |-> <<>>, hasFacets |-> FALSE, embed |-> <<>>, hasEmbed |-> FALSE]
    /\ session = "none"
    /\ idx = 0
    /\ img_bytes = 0
    /\ calls = <<>>
    /\ resp = NoResponse
    /\ printed = FALSE
    /\ error = "none"

NextScan == ScanMentions \/ ScanUrls

SpecScan == InitScan /\ [][NextScan]_vars

(***************************************************************************)
(* What the properties read off the state.                                 *)
(***************************************************************************)
CallsTo(api) == SelectSeq(calls, LAMBDA c : c.api = api)

LastApi == IF calls = <<>> THEN "none" ELSE calls[Len(calls)].api

FacetsOfType(fs, type) == SelectSeq(fs, LAMBDA f : f.type = type)

Succeeded(c) == c.status >= 200 /\ c.status < 300

\* the mention facets of the matches whose lookup was not answered 400
RECURSIVE ResolvedFacets(_, _)
ResolvedFacets(ms, lookups) ==
    IF ms = <<>> \/ lookups = <<>> THEN <<>>
    ELSE (IF Head(lookups).status = 400 THEN <<>> ELSE <<MentionFacet(Head(ms))>>)
         \o ResolvedFacets(Tail(ms), Tail(lookups))

\* bytes[start:end] of Python, offsets 0-based and end exclusive
Slice(b, start, end) == SubSeq(b, start + 1, end)

IsPrefix(a, b) == Len(a) <= Len(b) /\ \A i \in 1..Len(a) : a[i] = b[i]

(***************************************************************************)
(* The properties.                                                         *)
(***************************************************************************)
\* C1, as stated: the bytes of the text at [start:end] of every mention
\* match are the handle alone, the "@" left out of the span.
C1_SpanIsHandleOnly ==
    \A i \in 1..Len(mentions) :
        Slice(Encode(text), mentions[i].start, mentions[i].end)
            = Encode(mentions[i].handle)

\* C1, amended: the bytes of the text at [start:end] of every mention match
\* are "@" followed by the handle; the span covers the sigil, the handle
\* field does not.
C1_SpanIsSigilAndHandle ==
    \A i \in 1..Len(mentions) :
        Slice(Encode(text), mentions[i].start, mentions[i].end)
            = <<64>> \o Encode(mentions[i].handle)

\* a mention found behind a two-byte character: its byte offset, 2, is not
\* its character offset, 1
C1_Witness ==
    /\ pc = "scanned"
    /\ Len(mentions) >= 1
    /\ text[1] = 233
    /\ mentions[1].start = 2
    /\ mentions[1].handle # <<>>

\* C2: with n >= 1 images and k <= n --alt texts (k = 0 too), no run fails
\* for a missing alt, and the i-th embed entry has the i-th alt text when
\* there is one and the empty string otherwise.
C2_MissingAltIsEmpty ==
    (Len(image) >= 1 /\ Len(alt) <= Len(image)) =>
        /\ error # "TypeError"
        /\ \A i \in 1..Len(post.embed) :
              post.embed[i].alt = (IF i <= Len(alt) THEN alt[i] ELSE <<>>)

\* C3: a well-formed mention, or URL, that begins at byte offset 0 of the
\* text is returned as a match by its scanner.
C3_StartOfTextIsBoundary ==
    pc = "scanned" =>
        /\ MentionBody(Encode(text), 1) # 0
              => Len(mentions) >= 1 /\ mentions[1].start = 0
        /\ UrlBody(Encode(text), 1) # 0
              => Len(urls) >= 1 /\ urls[1].start = 0

\* C4: a resolveHandle lookup that fails otherwise than with status 400 (no
\* response, or another non-success status, whatever the body) aborts the
\* run: parse_facets returns nothing and no later call is made.
C4_OtherFailureAborts ==
    (/\ LastApi = "resolveHandle"
     /\ \/ resp.kind = "transport"
        \/ (resp.kind = "http" /\ ~Succeeded(resp) /\ resp.status # 400))
        => pc = "failed" /\ ~post.hasFacets

\* C5: a lookup answered 400 raises nothing, the loop goes on or
\* parse_facets returns; and in what it returns every mention was looked
\* up, the mention facets are those of the lookups not answered 400 (none
\* when all were), and every URL match has its link facet.
C5_UnresolvableIsSkipped ==
    /\ (LastApi = "resolveHandle" /\ resp.kind = "http" /\ resp.status = 400)
          => \/ post.hasFacets
             \/ pc = "resolveHandle" /\ mi <= Len(mentions) /\ error = "none"
    /\ post.hasFacets =>
          LET us == urls
              lookups == CallsTo("resolveHandle")
          IN  /\ Len(lookups) = Len(mentions)
              /\ Len(FacetsOfType(post.facets, "mention"))
                    = Len(SelectSeq(lookups, LAMBDA c : c.status # 400))
              /\ FacetsOfType(post.facets, "link")
                    = [i \in 1..Len(us) |-> LinkFacet(us[i])]

\* the only mention was unresolvable: no mention facet, the link facet is there
C5_Witness ==
    /\ post.hasFacets
    /\ Len(CallsTo("resolveHandle")) >= 1
    /\ \A i \in 1..Len(calls) : calls[i].api = "resolveHandle" => calls[i].status = 400
    /\ FacetsOfType(post.facets, "mention") = <<>>
    /\ Len(FacetsOfType(post.facets, "link")) >= 1

\* C6: every uploadBlob call carries a payload of at most 1,000,000 bytes;
\* a payload is rejected exactly when it is longer; and the rejection ends
\* the run with the earlier images uploaded, one successful call each in
\* list order, and no call for this image, a later one or createRecord.
C6_SizeLimit ==
    /\ \A i \in 1..Len(calls) :
          calls[i].api = "uploadBlob" => calls[i].arg[2] <= MaxImageBytes
    /\ error = "ImageTooLarge" => img_bytes > MaxImageBytes
    /\ img_bytes > MaxImageBytes =>
          /\ pc = "failed"
          /\ error = "ImageTooLarge"
          /\ CallsTo("createRecord") = <<>>
          /\ LET uploads == CallsTo("uploadBlob")
             IN  /\ Len(uploads) = idx
                 /\ \A i \in 1..idx :
                       uploads[i].arg[1] = i - 1 /\ Succeeded(uploads[i])

\* the second image is too large, the first went up with exactly 1,000,000 bytes
C6_Witness ==
    /\ error = "ImageTooLarge"
    /\ img_bytes = MaxImageBytes + 1
    /\ idx = 1
    /\ Len(CallsTo("uploadBlob")) = 1
    /\ CallsTo("uploadBlob")[1].arg = <<0, MaxImageBytes>>

\* C7: a run that fails at createRecord on a non-success status has printed
\* the response before.
C7_FailedRecordIsPrinted ==
    (/\ pc = "failed"
     /\ LastApi = "createRecord"
     /\ resp.kind = "http"
     /\ ~Succeeded(resp))
        => printed

\* C8: what parse_facets returns is the mention facets of the resolved
\* mentions in scan order, then the link facets in scan order; it is not
\* sorted by byte offset.
C8_MentionsThenLinks ==
    post.hasFacets =>
        LET us == urls
        IN  post.facets =
                ResolvedFacets(mentions, CallsTo("resolveHandle"))
                \o [i \in 1..Len(us) |-> LinkFacet(us[i])]

\* a link that stands before a mention in the text and after it in the list
C8_Witness ==
    /\ post.hasFacets
    /\ \E i, j \in 1..Len(post.facets) :
          /\ i < j
          /\ post.facets[i].type = "mention"
          /\ post.facets[j].type = "link"
          /\ post.facets[j].byteEnd <= post.facets[i].byteStart

\* C9: the calls are createSession once and first, nothing after it unless
\* it succeeded, the lookups before the uploads, the uploads in list order,
\* createRecord at most once and last and only after one successful upload
\* per image, and nothing after a failed createSession or uploadBlob.
C9_LinearPipeline ==
    /\ \A i \in 1..Len(calls) : (calls[i].api = "createSession") <=> (i = 1)
    /\ Len(calls) >= 2 => Succeeded(calls[1])
    /\ \A i, j \in 1..Len(calls) :
          (i < j /\ calls[i].api = "uploadBlob") => calls[j].api # "resolveHandle"
    /\ \A i \in 1..Len(calls) : calls[i].api = "createRecord" => i = Len(calls)
    /\ LET uploads == CallsTo("uploadBlob")
       IN  /\ \A i \in 1..Len(uploads) : uploads[i].arg[1] = i - 1
           /\ CallsTo("createRecord") # <<>> =>
                 /\ Len(uploads) = Len(image)
                 /\ \A i \in 1..Len(image) : Succeeded(uploads[i])
    /\ \A i \in 1..Len(calls) :
          (calls[i].api \in {"createSession", "uploadBlob"} /\ ~Succeeded(calls[i]))
              => i = Len(calls)
    /\ (pc \in {"resolveHandle", "uploadBlob", "createRecord", "done"}) => calls # <<>>

\* a finished run with a lookup and two uploads
C9_Witness ==
    /\ pc = "done"
    /\ Len(CallsTo("resolveHandle")) >= 1
    /\ Len(CallsTo("uploadBlob")) = 2
    /\ Len(CallsTo("createRecord")) = 1

\* C10: the handles looked up are, in order, the handles of the matches
\* parse_mentions returned (kept in mentions), one lookup per match, repeated handles included: a prefix
\* of them while the loop runs, all of them once parse_facets has returned.
C10_OneLookupPerMatch ==
    LET ms      == mentions
        lookups == CallsTo("resolveHandle")
        handles == [i \in 1..Len(ms) |-> ms[i].handle]
        asked   == [i \in 1..Len(lookups) |-> lookups[i].arg]
    IN  /\ IsPrefix(asked, handles)
        /\ post.hasFacets => asked = handles

\* one handle mentioned twice and looked up twice, the first answer a 400
C10_Witness ==
    /\ post.hasFacets
    /\ Len(CallsTo("resolveHandle")) = 2
    /\ CallsTo("resolveHandle")[1].arg = CallsTo("resolveHandle")[2].arg
    /\ CallsTo("resolveHandle")[1].status = 400
    /\ CallsTo("resolveHandle")[2].status = 200

====
